---- MODULE Spec2Model ----
(***************************************************************************)
(* The translation pipeline of epub-translator (src/src/lib.rs):           *)
(* translate_folder (orchestrator and writer), run_translator (dispatcher) *)
(* and translation_task (worker), with the two bounded mpsc channels and   *)
(* the semaphore that connect them.                                        *)
(*                                                                         *)
(* Node ids are 0-based as in the source.  A step of the model is the code *)
(* a task runs between two suspension points (.await).                     *)
(*                                                                         *)
(* Spec is translate_epub: unzip, the pipeline over a node vector of up to  *)
(* MaxNodes texts, serialization and zip;                                  *)
(* XhtmlSpec is the enumeration of the text nodes of a parsed document     *)
(* (src/src/xhtml/mod.rs) and their overwrite through the node handles;    *)
(* RoundTripSpec is get_document_node, the overwrites and                  *)
(* serialize_document_to_string over XHTML sources held as tag and text    *)
(* tokens;                                                                 *)
(* ZipSpec is zip_folder_to_epub (src/src/epub/mod.rs) over the walks of a *)
(* working directory; DriverSpec is main (src/src/main.rs) up to and       *)
(* including its call of translate_epub.                                   *)
(***************************************************************************)
EXTENDS Bags, FiniteSets, Integers, Sequences, TLC

\* ------------------------------------------------------------------ bounds
\* Largest number of text nodes in the flattened node vector.
MaxNodes == 3
\* Largest value of the concurrent_requests argument.
MaxConcurrent == 2
\* Largest length of the configurations argument (the dispatch vector).
MaxConfigurations == 2
\* Capacity of both channels; the source uses 15_000 (lib.rs:303), scaled
\* down so that a full channel is reached with a handful of nodes.
writer_queue_size == 2
\* Largest number of nodes below the document node of a parsed document.
MaxDomNodes == 4
\* Largest number of entries below the root of the zipped folder.
MaxEntries == 3
\* Largest number of API keys the driver discovers.
MaxKeys == 2
\* Largest number of tags and text runs in an XHTML source.
MaxTokens == 4
\* Number of API keys in the large environment: the smallest number of keys
\* of equal residual whose share of the total is below half a percent.
ManyKeys == 201

\* ------------------------------------------------------- program constants
\* lib.rs:259  let max_retries = 4;
max_retries == 4
\* main.rs:105  the residual a credential must exceed to be kept
safety_margin == 20000
\* main.rs:117  the proportions are percentages
percent == 100

\* The target language handed to translate_folder.
target_lang == "ES"

\* The node texts of the input documents, in node-vector order; a run
\* translates the first total_nodes texts of one of them.
Documents ==
    { <<"Hello", " ", "World", "Hello", "Bye">>,
      <<" ", "Bye", "Bye", "Hello", "World">> }

VARIABLES
    dom,                    \* the parsed document: node handle -> node (handle 0 is the document node)
    text_nodes,             \* the flattened vector of text-node handles
    total_nodes,            \* nodes.len()
    concurrent_requests,    \* argument: size of the semaphore
    configuration_length,   \* configurations.len()
    texts_enumerated,       \* snapshot of the node texts, id -> string
    nodes,                  \* contents of the text nodes, id -> string
    rx_translator,          \* requests channel: buffered TranslationRequests
    rx_writer,              \* results channel: buffered TranslationResults
    tasks,                  \* bag of spawned translation_task instances
    semaphore,              \* available permits
    translator,             \* run_translator: "unspawned" | "running" | "ended" | "panicked"
    pc,                     \* translate_epub and translate_folder: "unzip" | "parse" | "send" |
                            \*   "recv" | "resend" | "serialize" | "zip" | "done" | "panicked" |
                            \*   "unzip_failed" | "parse_failed" | "parse_panicked" |
                            \*   "serialize_failed" | "zip_failed"; XhtmlSpec: "parsed" | "enumerated"
    cur,                    \* id of the request translate_folder is sending
    completed,              \* progress counter
    retries,                \* the retry vector
    emitted,                \* history: requests accepted by the channel, per id
    resolved,               \* history: how each id was counted completed
    delivered,              \* history: Some(text) results the writer received, per id
    written,                \* history: number of times the writer overwrote each node
    attempts_failed,        \* history: some translate() call did not return Ok
    error_replies,          \* history: translate() calls that returned Err, per id
    empty_replies,          \* history: translate() calls answered with an empty translations list, per id
    credentials_used,       \* history: indices into configurations the attempts of an id ran with
    failed_sent,            \* history: results holding None accepted by the results channel, per result id
    error,                  \* the step of translate_epub that failed: "" | "unzip" | "parse" | "serialize" | "zip"
    xhtml_overwritten,      \* some XHTML file of the working directory has been written back
    output_epub,            \* the output EPUB file exists
    walker,                 \* zip_folder_to_epub: the directory entries the walk has still to yield
    zip,                    \* zip_folder_to_epub: the entries written to the archive, in order
    args,                   \* main: the parsed command line
    env,                    \* the environment: 0 when a primary key is given, n when DEEPL_API_KEY_n is set
    api_keys,               \* main: the keys discovered, by number, in the order of discovery
    usage,                  \* the service: its answers to the probe and the usage query of each discovered key
    languages,              \* the service: its answer to GET /languages
    main_pc,                \* main: where it is, or where it ended
    configurations_with_capacity,   \* main: the probed credentials that passed the filter
    total_capacity,         \* main: sum of the kept capacities
    primary_configuration,  \* main: the credential used for /languages and /usage
    balanced_configurations,\* main: the weighted dispatch vector
    exit_code,              \* main: None while running, Some(code) once the process has ended
    prompted,               \* main: the confirmation prompt has been printed
    input,                  \* main: the line read at the prompt
    translate_epub_called,  \* main: translate_epub has been called
    source,                 \* the content of an XHTML file, as its sequence of tags and text runs
    serialized              \* the string serialize_document_to_string returns, as tags and text runs

vars == <<dom, text_nodes, total_nodes, concurrent_requests, configuration_length, texts_enumerated,
          nodes, rx_translator, rx_writer, tasks, semaphore, translator, pc, cur,
          completed, retries, emitted, resolved, delivered, written, attempts_failed,
          error_replies, empty_replies, credentials_used, failed_sent,
          error, xhtml_overwritten, output_epub, walker, zip,
          args, env, api_keys, usage, languages, main_pc, configurations_with_capacity,
          total_capacity, primary_configuration, balanced_configurations, exit_code, prompted,
          input, translate_epub_called, source, serialized>>

\* History of the workers' translate() calls.
worker_history == <<error_replies, empty_replies, credentials_used>>

\* The files translate_epub writes and the step it failed in.
files == <<error, xhtml_overwritten, output_epub>>

\* The state of zip_folder_to_epub.
archive_vars == <<walker, zip>>

\* The state of main and the answers of the service it sees.
driver_vars == <<args, env, api_keys, usage, languages, main_pc, configurations_with_capacity,
                 total_capacity, primary_configuration, balanced_configurations,
                 exit_code, prompted, input, translate_epub_called>>

\* An XHTML file before parsing and after serialization.
surface_vars == <<source, serialized>>

\* What no step of the pipeline changes.
inputs == <<dom, text_nodes, total_nodes, concurrent_requests, configuration_length,
            texts_enumerated, archive_vars, driver_vars, surface_vars>>

Ids == 0 .. (total_nodes - 1)


\* ------------------------------------------------------------- messages
\* Option<String>: None is <<>>, Some(s) is <<s>>.
None == <<>>
Some(s) == <<s>>

\* main has not been entered: the state of the driver in the specifications
\* of the layers below it.
DriverIdle ==
    /\ args = <<>>
    /\ env = {}
    /\ api_keys = <<>>
    /\ usage = <<>>
    /\ languages = {}
    /\ main_pc = "idle"
    /\ configurations_with_capacity = <<>>
    /\ total_capacity = 0
    /\ primary_configuration = "test"
    /\ balanced_configurations = <<>>
    /\ exit_code = None
    /\ prompted = FALSE
    /\ input = ""
    /\ translate_epub_called = FALSE

\* Variant: the request carries what the first text node holds when it is sent.
TranslationRequestFirstNode(id, text) == [id |-> id, text |-> nodes[0]]

\* struct TranslationRequest, built at lib.rs:337-340 and lib.rs:378-381.
TranslationRequest(id, text) == [id |-> id, text |-> text]

\* Variant: the result is labelled with a constant id instead of the task's.
TranslationResultWrongId(id, translated_text) ==
    [id |-> 0, translated_text |-> translated_text]

\* The result a task builds at lib.rs:158-168.
TranslationResult(id, translated_text) ==
    [id |-> id, translated_text |-> translated_text]

\* ------------------------------------------------------------- the service
\* The mock server's /v2/translate handler.
r_translate(text, lang) == "--|" \o text \o "|-- Translated to " \o lang

\* How a POST /translate can end for the caller.
Replies == {"ok", "transport_error", "bad_status", "malformed_json", "empty_translations"}

\* deepl::translate: Ok(text), Err, or a panic on translations[0] of an empty list.
translate(text, lang, reply) ==
    CASE reply = "ok" -> [kind |-> "Ok", text |-> r_translate(text, lang)]
      [] reply = "empty_translations" -> [kind |-> "Panic", text |-> ""]
      [] OTHER -> [kind |-> "Err", text |-> ""]

\* ------------------------------------------------------------- channels
\* tokio mpsc: a send completes when the buffer has room, and fails when the
\* receiver is gone.
HasRoom(q) == Len(q) < writer_queue_size

Enqueue(q, m) == Append(q, m)

\* translate_folder owns tx_translator and rx_writer from their creation
\* until it returns or unwinds.
FolderAlive == pc \in {"send", "recv", "resend", "serialize"}

\* run_translator owns rx_translator and the original tx_writer.
TranslatorAlive == translator = "running"

\* Every translation_task owns a clone of tx_writer.
WriterSendersAlive == TranslatorAlive \/ tasks # EmptyBag

\* ------------------------------------------------------------- dispatch
\* Variant: the dispatcher itself waits for a free permit before it spawns.
PermitBeforeSpawn(spawned) == semaphore > 0

\* Variant: the dispatcher awaits the task it spawned before its next recv.
TaskAwaited(spawned) == spawned = EmptyBag

\* let _task = tokio::spawn(..): the handle is not awaited, so the tasks
\* spawned so far never keep the dispatcher from its next recv.
TaskDetached(spawned) == TRUE

\* Variant: the credential is picked by the number of tasks in flight.
ConfigIndexByLoad(id) == BagCardinality(tasks) % configuration_length

\* request.id % configuration_length
ConfigIndex(id) == id % configuration_length

\* ------------------------------------------------------------- the ? operator
\* Variant: the result of a step is not looked at.
TryIgnored(result, next, failed) == next

\* step()?: go on after Ok, return the error otherwise.
Try(result, next, failed) == IF result = "Ok" THEN next ELSE failed

\* ------------------------------------------------------------- semaphore
\* Variant: acquire() that also succeeds when no permit is left.
AcquireUnguarded(permits) == permits >= 0

\* semaphore.acquire() completes only while a permit is available.
CanAcquire(permits) == permits > 0

\* ------------------------------------------------------------- retry policy
\* Variant: a failed send is only logged.
SendErrorLogged(c) == c

\* The Err arm of a send on requests: completed += 1.
SendErrorCounted(c) == c + 1

\* Variant: the retry test with <= in place of <.
RetryAllowedOffByOne(r) == r <= max_retries

\* retries[id] < max_retries
RetryAllowed(r) == r < max_retries

\* Variant: one counter per node, all 0.
RetryVectorPerNode == [i \in 0..(total_nodes - 1) |-> 0]

\* vec![0, total_nodes]: a vector of the two elements 0 and total_nodes.
RetryVector == [i \in 0..1 |-> IF i = 0 THEN 0 ELSE total_nodes]

\* Variant: the result is written to the neighbouring node.
NodeIndexShifted(id) == (id + 1) % total_nodes

\* nodes[id]: the index of the node a result for `id` is written to.
NodeIndex(id) == id

\* Variant: the exit test fires one node early.
AfterOutcomeOffByOne(c) == IF c + 1 >= total_nodes THEN "serialize" ELSE "recv"

\* The loop's exit test, evaluated with the new value of completed.
AfterOutcome(c) == IF c = total_nodes THEN "serialize" ELSE "recv"

\* ------------------------------------------------------------- Init
\* translate_epub is called: the input EPUB fixes the node texts, the
\* arguments fix the semaphore size and the dispatch vector.
Init ==
    /\ dom = <<>>
    /\ text_nodes = <<>>
    /\ total_nodes \in 0..MaxNodes
    /\ concurrent_requests \in 0..MaxConcurrent
    /\ configuration_length \in 0..MaxConfigurations
    /\ texts_enumerated \in {[i \in 0..(total_nodes - 1) |-> doc[i + 1]] : doc \in Documents}
    /\ nodes = texts_enumerated
    /\ rx_translator = <<>>
    /\ rx_writer = <<>>
    /\ tasks = EmptyBag
    /\ semaphore = concurrent_requests
    /\ translator = "unspawned"
    /\ pc = "unzip"
    /\ cur = 0
    /\ completed = 0
    /\ retries = <<>>
    /\ emitted = [i \in 0..(total_nodes - 1) |-> 0]
    /\ resolved = [i \in 0..(total_nodes - 1) |-> "no"]
    /\ delivered = [i \in 0..(total_nodes - 1) |-> {}]
    /\ written = [i \in 0..(total_nodes - 1) |-> 0]
    /\ attempts_failed = FALSE
    /\ error_replies = [i \in 0..(total_nodes - 1) |-> 0]
    /\ empty_replies = [i \in 0..(total_nodes - 1) |-> 0]
    /\ credentials_used = [i \in 0..(total_nodes - 1) |-> {}]
    /\ failed_sent = [i \in 0..(total_nodes - 1) |-> 0]
    /\ error = ""
    /\ xhtml_overwritten = FALSE
    /\ output_epub = FALSE
    /\ walker = <<>>
    /\ zip = <<>>
    /\ DriverIdle
    /\ source = <<>>
    /\ serialized = <<>>

\* ------------------------------------------------------------- translate_epub
\* tempdir() and unzip_epub_from_path end, with Ok or with an error.
Unzip ==
    /\ pc = "unzip"
    /\ \E result \in {"Ok", "Err"} :
          /\ pc' = Try(result, "parse", "unzip_failed")
          /\ error' = IF result = "Ok" THEN error ELSE "unzip"
    /\ UNCHANGED <<inputs, nodes, rx_translator, rx_writer, tasks, semaphore, translator,
                   cur, completed, retries, emitted, resolved, delivered, written,
                   attempts_failed, worker_history, failed_sent, xhtml_overwritten,
                   output_epub>>

\* zip_folder_to_epub ends: File::create(epub_path) fails, or the file is
\* created and the archive is written to the end or up to an error.
Zip ==
    /\ pc = "zip"
    /\ \E result \in {"Ok", "CreateErr", "WriteErr"} :
          /\ output_epub' = (result # "CreateErr")
          /\ error' = IF result = "Ok" THEN error ELSE "zip"
          /\ pc' = Try(IF result = "Ok" THEN "Ok" ELSE "Err", "done", "zip_failed")
    /\ UNCHANGED <<inputs, nodes, rx_translator, rx_writer, tasks, semaphore, translator,
                   cur, completed, retries, emitted, resolved, delivered, written,
                   attempts_failed, worker_history, failed_sent, xhtml_overwritten>>

\* ------------------------------------------------------------- translate_folder
\* Steps 1 to 4: the XHTML files are listed and parsed, the nodes flattened,
\* the channels created and run_translator spawned.  get_xhtml_paths can
\* return an error; a document that does not parse panics on the unwrap.
Preprocess ==
    /\ pc = "parse"
    /\ \E result \in {"Ok", "Err", "Panic"} :
          /\ pc' = IF result = "Panic" THEN "parse_panicked"
                   ELSE Try(result, "send", "parse_failed")
          /\ error' = IF result = "Ok" THEN error ELSE "parse"
          /\ translator' = IF result = "Ok" THEN "running" ELSE translator
    /\ UNCHANGED <<inputs, nodes, rx_translator, rx_writer, tasks, semaphore,
                   cur, completed, retries, emitted, resolved, delivered, written,
                   attempts_failed, worker_history, failed_sent, xhtml_overwritten,
                   output_epub>>

\* One iteration of the initial fan-out: the send of the request of id `cur`
\* completes, or fails because run_translator dropped the receiver.
SendInitial ==
    /\ pc = "send"
    /\ cur < total_nodes
    /\ IF TranslatorAlive
       THEN /\ HasRoom(rx_translator)
            /\ rx_translator' =
                  Enqueue(rx_translator, TranslationRequest(cur, texts_enumerated[cur]))
            /\ emitted' = [emitted EXCEPT ![cur] = @ + 1]
            /\ UNCHANGED <<completed, resolved>>
       ELSE /\ completed' = SendErrorCounted(completed)
            /\ resolved' = [resolved EXCEPT ![cur] = "send_failed"]
            /\ UNCHANGED <<rx_translator, emitted>>
    /\ cur' = cur + 1
    /\ UNCHANGED <<inputs, nodes, rx_writer, tasks, semaphore, translator, pc, retries,
                   delivered, written, attempts_failed,
                   worker_history, failed_sent, files>>

\* The fan-out loop is over: the retry vector is allocated and the writer
\* loop is entered at its first rx_writer.recv().
EnterWriterLoop ==
    /\ pc = "send"
    /\ cur = total_nodes
    /\ retries' = RetryVector
    /\ pc' = "recv"
    /\ UNCHANGED <<inputs, nodes, rx_translator, rx_writer, tasks, semaphore, translator,
                   cur, completed, emitted, resolved, delivered, written, attempts_failed,
                   worker_history, failed_sent, files>>

\* The writer receives a result holding Some(text): overwrite the node.
WriterRecvTranslated ==
    /\ pc = "recv"
    /\ rx_writer # <<>>
    /\ Head(rx_writer).translated_text # None
    /\ LET id == Head(rx_writer).id
           text == Head(rx_writer).translated_text[1]
       IN /\ nodes' = [nodes EXCEPT ![NodeIndex(id)] = text]
          /\ delivered' = [delivered EXCEPT ![id] = @ \cup {text}]
          /\ written' = [written EXCEPT ![NodeIndex(id)] = @ + 1]
          /\ resolved' = [resolved EXCEPT ![id] = "written"]
    /\ rx_writer' = Tail(rx_writer)
    /\ completed' = completed + 1
    /\ pc' = AfterOutcome(completed + 1)
    /\ UNCHANGED <<inputs, rx_translator, tasks, semaphore, translator, cur, retries,
                   emitted, attempts_failed,
                   worker_history, failed_sent, files>>

\* The writer receives a result holding None: retry, give up, or panic on the
\* out-of-range index into retries.
WriterRecvFailed ==
    /\ pc = "recv"
    /\ rx_writer # <<>>
    /\ Head(rx_writer).translated_text = None
    /\ rx_writer' = Tail(rx_writer)
    /\ LET id == Head(rx_writer).id
       IN IF id \notin DOMAIN retries
          THEN /\ pc' = "panicked"
               /\ UNCHANGED <<retries, cur, completed, resolved>>
          ELSE IF RetryAllowed(retries[id])
          THEN /\ retries' = [retries EXCEPT ![id] = @ + 1]
               /\ cur' = id
               /\ pc' = "resend"
               /\ UNCHANGED <<completed, resolved>>
          ELSE /\ completed' = completed + 1
               /\ resolved' = [resolved EXCEPT ![id] = "exhausted"]
               /\ pc' = AfterOutcome(completed + 1)
               /\ UNCHANGED <<retries, cur>>
    /\ UNCHANGED <<inputs, nodes, rx_translator, tasks, semaphore, translator,
                   emitted, delivered, written, attempts_failed,
                   worker_history, failed_sent, files>>

\* The retry's send on requests completes (or fails: no receiver).
WriterResend ==
    /\ pc = "resend"
    /\ IF TranslatorAlive
       THEN /\ HasRoom(rx_translator)
            /\ rx_translator' =
                  Enqueue(rx_translator, TranslationRequest(cur, texts_enumerated[cur]))
            /\ emitted' = [emitted EXCEPT ![cur] = @ + 1]
            /\ pc' = AfterOutcome(completed)
            /\ UNCHANGED <<completed, resolved>>
       ELSE /\ completed' = SendErrorCounted(completed)
            /\ resolved' = [resolved EXCEPT ![cur] = "send_failed"]
            /\ pc' = AfterOutcome(SendErrorCounted(completed))
            /\ UNCHANGED <<rx_translator, emitted>>
    /\ UNCHANGED <<inputs, nodes, rx_writer, tasks, semaphore, translator, cur,
                   retries, delivered, written, attempts_failed,
                   worker_history, failed_sent, files>>

\* rx_writer.recv() returns None: the buffer is empty and no sender is left.
WriterChannelClosed ==
    /\ pc = "recv"
    /\ rx_writer = <<>>
    /\ ~WriterSendersAlive
    /\ pc' = "serialize"
    /\ UNCHANGED <<inputs, nodes, rx_translator, rx_writer, tasks, semaphore,
                   translator, cur, completed, retries, emitted, resolved,
                   delivered, written, attempts_failed,
                   worker_history, failed_sent, files>>

\* Step 7 and the return: the documents are written back, all of them or
\* those before the one whose serialize_document fails, and the channel ends
\* of translate_folder are dropped.
Serialize ==
    /\ pc = "serialize"
    /\ \E result \in {"Ok", "Err"} : \E some_written \in BOOLEAN :
          /\ xhtml_overwritten' = (result = "Ok" \/ some_written)
          /\ error' = IF result = "Ok" THEN error ELSE "serialize"
          /\ pc' = Try(result, "zip", "serialize_failed")
    /\ rx_writer' = <<>>
    /\ UNCHANGED <<inputs, nodes, rx_translator, tasks, semaphore, translator, cur,
                   completed, retries, emitted, resolved, delivered, written, attempts_failed,
                   worker_history, failed_sent, output_epub>>

\* ------------------------------------------------------------- run_translator
\* One iteration of the dispatcher loop: receive a request and spawn its task;
\* `request.id % configuration_length` panics when the vector is empty.
TranslatorRecv ==
    /\ translator = "running"
    /\ rx_translator # <<>>
    /\ TaskDetached(tasks)
    /\ LET request == Head(rx_translator)
       IN IF configuration_length = 0
          THEN /\ translator' = "panicked"
               /\ rx_translator' = <<>>
               /\ UNCHANGED tasks
          ELSE /\ rx_translator' = Tail(rx_translator)
               /\ tasks' = tasks (+) SetToBag({[id |-> request.id,
                                                text |-> request.text,
                                                config_index |-> ConfigIndex(request.id),
                                                at |-> "acquire",
                                                result |-> None]})
               /\ UNCHANGED translator
    /\ UNCHANGED <<inputs, nodes, rx_writer, semaphore, pc, cur, completed, retries,
                   emitted, resolved, delivered, written, attempts_failed,
                   worker_history, failed_sent, files>>

\* receiver.recv() returns None: translate_folder dropped tx_translator and
\* the buffer is drained.
TranslatorEnd ==
    /\ translator = "running"
    /\ rx_translator = <<>>
    /\ ~FolderAlive
    /\ translator' = "ended"
    /\ UNCHANGED <<inputs, nodes, rx_translator, rx_writer, tasks, semaphore, pc, cur,
                   completed, retries, emitted, resolved, delivered, written, attempts_failed,
                   worker_history, failed_sent, files>>

\* ------------------------------------------------------------- translation_task
Replace(t, u) == (tasks (-) SetToBag({t})) (+) SetToBag({u})

Remove(t) == tasks (-) SetToBag({t})

\* Variant: the permit is forgotten instead of dropped.
ForgetPermit(permits) == permits

\* drop(out_permit) at lib.rs:171, and the drop of the permit when the task
\* unwinds: one permit goes back to the semaphore.
DropPermit(permits) == permits + 1

\* semaphore.acquire() completes.
TaskAcquire ==
    \E t \in BagToSet(tasks) :
        /\ t.at = "acquire"
        /\ CanAcquire(semaphore)
        /\ semaphore' = semaphore - 1
        /\ tasks' = Replace(t, [t EXCEPT !.at = "translate"])
        /\ UNCHANGED <<inputs, nodes, rx_translator, rx_writer, translator, pc, cur,
                       completed, retries, emitted, resolved, delivered, written, attempts_failed,
                   worker_history, failed_sent, files>>

\* translate() completes; the result is built and the permit dropped.  A panic
\* inside translate() unwinds the task: the permit is dropped, nothing is sent.
TaskTranslate ==
    \E t \in BagToSet(tasks) : \E reply \in Replies :
        /\ t.at = "translate"
        /\ LET r == translate(t.text, target_lang, reply)
           IN /\ tasks' =
                    IF r.kind = "Panic" THEN Remove(t)
                    ELSE Replace(t, [t EXCEPT !.at = "send",
                                              !.result = IF r.kind = "Ok"
                                                         THEN Some(r.text) ELSE None])
              /\ attempts_failed' = (attempts_failed \/ r.kind # "Ok")
              /\ error_replies' = [error_replies EXCEPT ![t.id] = @ + (IF r.kind = "Err" THEN 1 ELSE 0)]
        /\ empty_replies' = [empty_replies EXCEPT
                                ![t.id] = @ + (IF reply = "empty_translations" THEN 1 ELSE 0)]
        /\ credentials_used' = [credentials_used EXCEPT ![t.id] = @ \cup {t.config_index}]
        /\ semaphore' = DropPermit(semaphore)
        /\ UNCHANGED <<inputs, nodes, rx_translator, rx_writer, translator, pc, cur,
                       completed, retries, emitted, resolved, delivered, written,
                       failed_sent, files>>

\* Variant: the task writes its translation into the node by itself.
TaskSendThroughNode ==
    \E t \in BagToSet(tasks) :
        /\ t.at = "send"
        /\ t.result # None
        /\ nodes' = [nodes EXCEPT ![t.id] = t.result[1]]
        /\ tasks' = Remove(t)
        /\ UNCHANGED <<inputs, rx_translator, rx_writer, semaphore, translator, pc, cur,
                       completed, retries, emitted, resolved, delivered, written,
                       attempts_failed, worker_history, failed_sent, files>>

\* tx_writer.send(result) completes (or fails: no receiver); the task ends.
TaskSend ==
    \E t \in BagToSet(tasks) :
        /\ t.at = "send"
        /\ IF FolderAlive
           THEN /\ HasRoom(rx_writer)
                /\ rx_writer' = Enqueue(rx_writer, TranslationResult(t.id, t.result))
                /\ failed_sent' =
                      IF t.result = None
                      THEN [failed_sent EXCEPT ![TranslationResult(t.id, t.result).id] = @ + 1]
                      ELSE failed_sent
           ELSE UNCHANGED <<rx_writer, failed_sent>>
        /\ tasks' = Remove(t)
        /\ UNCHANGED <<inputs, nodes, rx_translator, semaphore, translator, pc, cur,
                       completed, retries, emitted, resolved, delivered, written, attempts_failed,
                       worker_history, files>>

\* ------------------------------------------------------------- specification
Next ==
    \/ Unzip
    \/ Preprocess
    \/ SendInitial
    \/ EnterWriterLoop
    \/ WriterRecvTranslated
    \/ WriterRecvFailed
    \/ WriterResend
    \/ WriterChannelClosed
    \/ Serialize
    \/ Zip
    \/ TranslatorRecv
    \/ TranslatorEnd
    \/ TaskAcquire
    \/ TaskTranslate
    \/ TaskSend

Spec == Init /\ [][Next]_vars

\* ------------------------------------------------------------- XHTML surface
\* A parsed document is a tree of nodes as in markup5ever_rcdom: every node has
\* its data (Document, Element with a name, Text with contents) and the vector
\* of its children.  Handles are numbers, 0 the document node.
ElementNames == {"p", "style"}

\* The text a text node holds when the document is parsed.
ParsedText(i) == "text" \o ToString(i)

\* The documents of n nodes below the document node: node i hangs below an
\* earlier node that is not a text node; children keep their handle order.
ParsedDocuments(n) ==
    { [i \in 0..n |->
          [data |-> IF i = 0 THEN "Document" ELSE IF kind[i] = "text" THEN "Text" ELSE "Element",
           name |-> IF i = 0 \/ kind[i] = "text" THEN "" ELSE kind[i],
           contents |-> IF i # 0 /\ kind[i] = "text" THEN ParsedText(i) ELSE "",
           children |-> SelectSeq([k \in 1..n |-> k], LAMBDA j : parent[j] = i)]] :
        <<parent, kind>> \in
            { pk \in [1..n -> 0..(n - 1)] \X [1..n -> ElementNames \cup {"text"}] :
                \A i \in 1..n : pk[1][i] < i /\ (pk[1][i] = 0 \/ pk[2][pk[1][i]] # "text") } }

\* Variant of get_text_nodes without the arm that skips style elements.
RECURSIVE get_text_nodes_unfiltered(_)
RECURSIVE extend_unfiltered(_)
extend_unfiltered(children) ==
    IF children = <<>> THEN <<>>
    ELSE get_text_nodes_unfiltered(Head(children)) \o extend_unfiltered(Tail(children))

get_text_nodes_unfiltered(node) ==
    IF dom[node].data = "Text" THEN <<node>> ELSE extend_unfiltered(dom[node].children)

RECURSIVE get_text_nodes(_)
RECURSIVE extend_from_children(_)
\* The loop over node.children: the children's text nodes, appended in order.
extend_from_children(children) ==
    IF children = <<>> THEN <<>>
    ELSE get_text_nodes(Head(children)) \o extend_from_children(Tail(children))

\* xhtml::get_text_nodes: the match on node.data.
get_text_nodes(node) ==
    CASE dom[node].data = "Text" -> <<node>>
      [] dom[node].data = "Element" /\ dom[node].name = "style" -> <<>>
      [] OTHER -> extend_from_children(dom[node].children)

XhtmlInit ==
    /\ dom \in UNION {ParsedDocuments(n) : n \in 1..MaxDomNodes}
    /\ text_nodes = <<>>
    /\ total_nodes = 0
    /\ concurrent_requests = 0
    /\ configuration_length = 0
    /\ texts_enumerated = <<>>
    /\ nodes = <<>>
    /\ rx_translator = <<>>
    /\ rx_writer = <<>>
    /\ tasks = EmptyBag
    /\ semaphore = 0
    /\ translator = "running"
    /\ pc = "parsed"
    /\ cur = 0
    /\ completed = 0
    /\ retries = <<>>
    /\ emitted = <<>>
    /\ resolved = <<>>
    /\ delivered = <<>>
    /\ written = <<>>
    /\ attempts_failed = FALSE
    /\ error_replies = <<>>
    /\ empty_replies = <<>>
    /\ credentials_used = <<>>
    /\ failed_sent = <<>>
    /\ error = ""
    /\ xhtml_overwritten = FALSE
    /\ output_epub = FALSE
    /\ walker = <<>>
    /\ zip = <<>>
    /\ DriverIdle
    /\ source = <<>>
    /\ serialized = <<>>

\* translate_folder steps 2 and the snapshot: the node vector is collected
\* from the document, counted, and the texts are copied out of the nodes.
CollectTextNodes ==
    /\ pc = "parsed"
    /\ LET found == get_text_nodes(0)
       IN /\ text_nodes' = found
          /\ total_nodes' = Len(found)
          /\ texts_enumerated' = [i \in 0..(Len(found) - 1) |-> dom[found[i + 1]].contents]
          /\ written' = [i \in 0..(Len(found) - 1) |-> 0]
    /\ pc' = "enumerated"
    /\ UNCHANGED <<dom, concurrent_requests, configuration_length, nodes, rx_translator,
                   rx_writer, tasks, semaphore, translator, cur, completed, retries,
                   emitted, resolved, delivered, attempts_failed,
                   worker_history, failed_sent, files, archive_vars,
                   driver_vars, surface_vars>>

\* The writer's overwrite, through the handle nodes[id], of a node's contents
\* with the translation of its snapshot.
OverwriteTextNode ==
    /\ pc = "enumerated"
    /\ \E id \in Ids :
          /\ written[id] = 0
          /\ dom' = [dom EXCEPT ![text_nodes[NodeIndex(id) + 1]].contents =
                                    r_translate(texts_enumerated[id], target_lang)]
          /\ written' = [written EXCEPT ![id] = 1]
    /\ UNCHANGED <<text_nodes, total_nodes, concurrent_requests, configuration_length,
                   texts_enumerated, nodes, rx_translator, rx_writer, tasks, semaphore,
                   translator, pc, cur, completed, retries, emitted, resolved, delivered,
                   attempts_failed,
                   worker_history, failed_sent, files, archive_vars,
                   driver_vars, surface_vars>>

XhtmlNext ==
    \/ CollectTextNodes
    \/ OverwriteTextNode

XhtmlSpec == XhtmlInit /\ [][XhtmlNext]_vars

\* ------------------------------------------------------------- round trip
\* An XHTML source is held as its sequence of tags and text runs.  A tag
\* keeps its attribute text as written; one of the attribute texts of each
\* element holds the character '>' inside a quoted value, which XML allows.
VoidElements == {"br", "hr", "img", "input", "link", "meta"}

SpanAttrs == {" epub:type=\"pagebreak\" id=\"pg5\"", " title=\"a>b\""}

ImgAttrs == {" id=\"im01\" src=\"pg01.jpg\"", " alt=\"a>b\" src=\"pg01.jpg\""}

\* The attribute text holds a '>'.
HasGt(attrs) == attrs \in {" title=\"a>b\"", " alt=\"a>b\" src=\"pg01.jpg\""}

\* The attribute text up to and without its first '>', and what follows it.
BeforeGt(attrs) == IF attrs = " title=\"a>b\"" THEN " title=\"a" ELSE " alt=\"a"

AfterGt(attrs) == IF attrs = " title=\"a>b\"" THEN "b\"" ELSE "b\" src=\"pg01.jpg\""

StartTag(name, attrs, self_closing) ==
    [type |-> "start", name |-> name, attrs |-> attrs, self_closing |-> self_closing, text |-> ""]

EndTag(name) ==
    [type |-> "end", name |-> name, attrs |-> "", self_closing |-> FALSE, text |-> ""]

TextRun(text) ==
    [type |-> "text", name |-> "", attrs |-> "", self_closing |-> FALSE, text |-> text]

\* The tags of a source, and a text run whose text is fixed by its place.
TokenKinds ==
    {TextRun("")} \cup {StartTag("p", "", FALSE), EndTag("p"), EndTag("span")}
    \cup {StartTag("span", a, sc) : a \in SpanAttrs, sc \in BOOLEAN}
    \cup {StartTag("img", a, TRUE) : a \in ImgAttrs}

RECURSIVE WellFormed(_, _, _)
\* XML well-formedness and the XHTML content model of a source: tags nest,
\* a paragraph is not inside another element, text runs are maximal.
WellFormed(tokens, open, after_text) ==
    IF tokens = <<>> THEN open = <<>>
    ELSE LET token == Head(tokens)
         IN CASE token.type = "text" ->
                    ~after_text /\ WellFormed(Tail(tokens), open, TRUE)
              [] token.type = "start" /\ token.self_closing ->
                    WellFormed(Tail(tokens), open, FALSE)
              [] token.type = "start" /\ ~token.self_closing ->
                    /\ token.name = "p" => open = <<>>
                    /\ WellFormed(Tail(tokens), Append(open, token.name), FALSE)
              [] OTHER ->
                    /\ open # <<>>
                    /\ open[Len(open)] = token.name
                    /\ WellFormed(Tail(tokens), SubSeq(open, 1, Len(open) - 1), FALSE)

Sources ==
    LET shapes == {k \in UNION {[1..n -> TokenKinds] : n \in 1..MaxTokens} :
                      WellFormed(k, <<>>, FALSE)}
    IN {[i \in DOMAIN k |-> IF k[i].type = "text" THEN TextRun(ParsedText(i)) ELSE k[i]] :
           k \in shapes}

RECURSIVE rewrite_self_closing_spans(_)
\* get_document_node's replace_all of <span([^>]*?)/> by <span$1></span>:
\* the lazy group cannot run over a '>' inside an attribute value, so a
\* self-closing span whose attributes hold one is left as written.
rewrite_self_closing_spans(tokens) ==
    IF tokens = <<>> THEN <<>>
    ELSE LET token == Head(tokens)
         IN IF /\ token.type = "start"
               /\ token.name = "span"
               /\ token.self_closing
               /\ ~HasGt(token.attrs)
            THEN <<StartTag("span", token.attrs, FALSE), EndTag("span")>>
                     \o rewrite_self_closing_spans(Tail(tokens))
            ELSE <<token>> \o rewrite_self_closing_spans(Tail(tokens))

\* A node of the tree is appended below `parent` and takes the next handle.
append_child(tree, parent, node) ==
    LET handle == Cardinality(DOMAIN tree)
    IN [h \in 0..handle |->
           IF h = handle THEN node
           ELSE IF h = parent THEN [tree[h] EXCEPT !.children = Append(@, handle)]
           ELSE tree[h]]

Max(S) == CHOOSE x \in S : \A y \in S : y <= x

RECURSIVE tree_builder(_, _, _)
\* html5ever's tree construction over the tags of the body: a start tag
\* opens an element below the current one; the self-closing flag closes a
\* void element only; an end tag closes up to the nearest open element of
\* its name; the end of input closes what is still open.
tree_builder(tokens, tree, open) ==
    IF tokens = <<>> THEN tree
    ELSE LET token == Head(tokens)
             current == IF open = <<>> THEN 0 ELSE open[Len(open)]
             handle == Cardinality(DOMAIN tree)
             named == {k \in DOMAIN open : tree[open[k]].name = token.name}
         IN CASE token.type = "text" ->
                    tree_builder(Tail(tokens),
                                 append_child(tree, current,
                                     [data |-> "Text", name |-> "", attrs |-> "",
                                      contents |-> token.text, children |-> <<>>]),
                                 open)
              [] token.type = "start" ->
                    tree_builder(Tail(tokens),
                                 append_child(tree, current,
                                     [data |-> "Element", name |-> token.name,
                                      attrs |-> token.attrs, contents |-> "",
                                      children |-> <<>>]),
                                 IF token.name \in VoidElements THEN open
                                 ELSE Append(open, handle))
              [] OTHER ->
                    tree_builder(Tail(tokens), tree,
                                 IF named = {} THEN open
                                 ELSE SubSeq(open, 1, Max(named) - 1))

\* xhtml::get_document_node: the span rewrite, then parse_document.
get_document_node(content) ==
    tree_builder(rewrite_self_closing_spans(content),
                 [h \in {0} |-> [data |-> "Document", name |-> "", attrs |-> "",
                                 contents |-> "", children |-> <<>>]],
                 <<>>)

RECURSIVE serialize(_, _)
RECURSIVE serialize_children(_, _)
\* html5ever's serialize of a node: a start tag with the attributes as
\* held ('<' and '>' of an attribute value are written as they are), the
\* children and an end tag, and no end tag for a void element.
serialize(tree, handle) ==
    CASE tree[handle].data = "Text" -> <<TextRun(tree[handle].contents)>>
      [] tree[handle].data = "Element" /\ tree[handle].name \in VoidElements ->
            <<StartTag(tree[handle].name, tree[handle].attrs, FALSE)>>
      [] tree[handle].data = "Element" ->
            <<StartTag(tree[handle].name, tree[handle].attrs, FALSE)>>
                \o serialize_children(tree, tree[handle].children)
                \o <<EndTag(tree[handle].name)>>
      [] OTHER -> serialize_children(tree, tree[handle].children)

\* The loop over document.children.
serialize_children(tree, children) ==
    IF children = <<>> THEN <<>>
    ELSE serialize(tree, Head(children)) \o serialize_children(tree, Tail(children))

\* serialize_document_to_string's loop over the void tags: replace_all of
\* (<tag[^>]*?)> by $1/>.  The match ends at the first '>' after the tag
\* name, so the slash goes before the '>' of an attribute value when the
\* attributes hold one, and the tag keeps its own '>' without a slash.
close_void_tags(tokens) ==
    [k \in DOMAIN tokens |->
        IF tokens[k].type = "start" /\ tokens[k].name \in VoidElements
        THEN IF HasGt(tokens[k].attrs)
             THEN StartTag(tokens[k].name,
                           BeforeGt(tokens[k].attrs) \o "/>" \o AfterGt(tokens[k].attrs),
                           FALSE)
             ELSE StartTag(tokens[k].name, tokens[k].attrs, TRUE)
        ELSE tokens[k]]

RECURSIVE collapse_empty_spans(_)
\* serialize_document_to_string's replace_all of <span([^>]*?)></span> by
\* <span$1/>: the group cannot run over a '>' inside an attribute value.
collapse_empty_spans(tokens) ==
    IF tokens = <<>> THEN <<>>
    ELSE IF /\ Len(tokens) >= 2
            /\ tokens[1].type = "start"
            /\ tokens[1].name = "span"
            /\ ~HasGt(tokens[1].attrs)
            /\ tokens[2] = EndTag("span")
         THEN <<StartTag("span", tokens[1].attrs, TRUE)>>
                  \o collapse_empty_spans(SubSeq(tokens, 3, Len(tokens)))
         ELSE <<Head(tokens)>> \o collapse_empty_spans(Tail(tokens))

\* xhtml::serialize_document_to_string.
serialize_document_to_string(tree) ==
    collapse_empty_spans(close_void_tags(serialize(tree, 0)))

\* The round trip starts from a file read into a string.
RoundTripInit ==
    /\ source \in Sources
    /\ serialized = <<>>
    /\ dom = <<>>
    /\ text_nodes = <<>>
    /\ total_nodes = 0
    /\ concurrent_requests = 0
    /\ configuration_length = 0
    /\ texts_enumerated = <<>>
    /\ nodes = <<>>
    /\ rx_translator = <<>>
    /\ rx_writer = <<>>
    /\ tasks = EmptyBag
    /\ semaphore = 0
    /\ translator = "running"
    /\ pc = "read"
    /\ cur = 0
    /\ completed = 0
    /\ retries = <<>>
    /\ emitted = <<>>
    /\ resolved = <<>>
    /\ delivered = <<>>
    /\ written = <<>>
    /\ attempts_failed = FALSE
    /\ error_replies = <<>>
    /\ empty_replies = <<>>
    /\ credentials_used = <<>>
    /\ failed_sent = <<>>
    /\ error = ""
    /\ xhtml_overwritten = FALSE
    /\ output_epub = FALSE
    /\ walker = <<>>
    /\ zip = <<>>
    /\ DriverIdle

round_trip_frame == <<concurrent_requests, configuration_length, nodes, rx_translator,
                      rx_writer, tasks, semaphore, translator, cur, completed, retries,
                      emitted, resolved, delivered, attempts_failed, worker_history,
                      failed_sent, files, archive_vars, driver_vars>>

\* get_document_node(&content).
ParseDocument ==
    /\ pc = "read"
    /\ dom' = get_document_node(source)
    /\ pc' = "parsed"
    /\ UNCHANGED <<round_trip_frame, text_nodes, total_nodes, texts_enumerated, written,
                   surface_vars>>

\* serialize_document_to_string(&document), before or after the overwrites.
SerializeDocument ==
    /\ pc \in {"parsed", "enumerated"}
    /\ serialized' = serialize_document_to_string(dom)
    /\ pc' = "serialized"
    /\ UNCHANGED <<round_trip_frame, dom, text_nodes, total_nodes, texts_enumerated,
                   written, source>>

RoundTripNext ==
    \/ ParseDocument
    \/ CollectTextNodes
    \/ OverwriteTextNode
    \/ SerializeDocument

RoundTripSpec == RoundTripInit /\ [][RoundTripNext]_vars

\* ------------------------------------------------------------- archive
\* The names a working directory can hold, relative to the folder; a name
\* with a slash lies inside the directory named before the slash.
EntryNames == {"mimetype", "META-INF", "META-INF/container.xml", "content.opf"}

Directories == {"META-INF"}

ParentDirectory(name) == IF name = "META-INF/container.xml" THEN "META-INF" ELSE ""

\* The root of the walk: WalkDir yields the folder itself first, and
\* strip_prefix leaves it the empty name.
RootEntry == [name |-> "", is_file |-> FALSE]

\* WalkDir::new(folder_path): the root, then the entries below it in the
\* order the file system lists them, a directory before what it holds.
Walks ==
    { <<RootEntry>> \o [k \in 1..Len(order) |->
                           [name |-> order[k], is_file |-> order[k] \notin Directories]] :
        order \in { o \in UNION {[1..n -> EntryNames] : n \in 0..MaxEntries} :
                      /\ \A j, k \in DOMAIN o : j # k => o[j] # o[k]
                      /\ \A k \in DOMAIN o :
                            ParentDirectory(o[k]) # "" =>
                                \E j \in 1..(k - 1) : o[j] = ParentDirectory(o[k]) } }

\* FileOptions::default().compression_method(Deflated).unix_permissions(0o755);
\* the permissions are kept as the octal digits.
options == [compression_method |-> "Deflated", unix_permissions |-> "755"]

\* zip.start_file(name, options)
start_file(name, opts) ==
    [name |-> name, kind |-> "file",
     compression_method |-> opts.compression_method,
     unix_permissions |-> opts.unix_permissions]

\* zip.add_directory(name, options)
add_directory(name, opts) ==
    [name |-> name, kind |-> "directory",
     compression_method |-> "Stored",
     unix_permissions |-> opts.unix_permissions]

ZipInit ==
    /\ walker \in Walks
    /\ zip = <<>>
    /\ pc = "zip_create"
    /\ output_epub = FALSE
    /\ error = ""
    /\ xhtml_overwritten = TRUE
    /\ dom = <<>>
    /\ text_nodes = <<>>
    /\ total_nodes = 0
    /\ concurrent_requests = 0
    /\ configuration_length = 0
    /\ texts_enumerated = <<>>
    /\ nodes = <<>>
    /\ rx_translator = <<>>
    /\ rx_writer = <<>>
    /\ tasks = EmptyBag
    /\ semaphore = 0
    /\ translator = "ended"
    /\ cur = 0
    /\ completed = 0
    /\ retries = <<>>
    /\ emitted = <<>>
    /\ resolved = <<>>
    /\ delivered = <<>>
    /\ written = <<>>
    /\ attempts_failed = FALSE
    /\ error_replies = <<>>
    /\ empty_replies = <<>>
    /\ credentials_used = <<>>
    /\ failed_sent = <<>>
    /\ DriverIdle
    /\ source = <<>>
    /\ serialized = <<>>

\* What no step of zip_folder_to_epub changes.
zip_frame == <<dom, text_nodes, total_nodes, concurrent_requests, configuration_length,
               texts_enumerated, nodes, rx_translator, rx_writer, tasks, semaphore,
               translator, cur, completed, retries, emitted, resolved, delivered, written,
               attempts_failed, worker_history, failed_sent, xhtml_overwritten,
               driver_vars, surface_vars>>

\* File::create(epub_path) and ZipWriter::new.
ZipCreate ==
    /\ pc = "zip_create"
    /\ \E result \in {"Ok", "Err"} :
          /\ output_epub' = (result = "Ok")
          /\ error' = IF result = "Ok" THEN error ELSE "zip"
          /\ pc' = Try(result, "zip_walk", "zip_failed")
    /\ UNCHANGED <<zip_frame, walker, zip>>

\* One iteration of the loop over the walk: a file is started and written, a
\* directory other than the root is added, the root is skipped.
ZipEntry ==
    /\ pc = "zip_walk"
    /\ walker # <<>>
    /\ LET entry == Head(walker)
       IN zip' = IF entry.is_file THEN Append(zip, start_file(entry.name, options))
                 ELSE IF entry.name # "" THEN Append(zip, add_directory(entry.name, options))
                 ELSE zip
    /\ walker' = Tail(walker)
    /\ UNCHANGED <<zip_frame, pc, error, output_epub>>

\* zip.finish() after the last entry.
ZipFinish ==
    /\ pc = "zip_walk"
    /\ walker = <<>>
    /\ pc' = "zip_finished"
    /\ UNCHANGED <<zip_frame, walker, zip, error, output_epub>>

ZipNext ==
    \/ ZipCreate
    \/ ZipEntry
    \/ ZipFinish

ZipSpec == ZipInit /\ [][ZipNext]_vars

\* ------------------------------------------------------------- f64
\* The driver computes the proportions in f64.  An f64 is held as its
\* significand bits, most significant first, and its binary exponent: the
\* value is 0.bits * 2^exp.
Reverse(seq) == [i \in 1..Len(seq) |-> seq[Len(seq) + 1 - i]]

RECURSIVE BitsLsbFirst(_)
BitsLsbFirst(n) == IF n = 0 THEN <<>> ELSE <<n % 2>> \o BitsLsbFirst(n \div 2)

RECURSIVE ValueOfBits(_)
ValueOfBits(bits) ==
    IF bits = <<>> THEN 0
    ELSE 2 * ValueOfBits(SubSeq(bits, 1, Len(bits) - 1)) + bits[Len(bits)]

\* The first n bits of r/t after the binary point, for r < t.
RECURSIVE QuotientBits(_, _, _)
QuotientBits(r, t, n) ==
    IF n = 0 THEN <<>> ELSE <<(2 * r) \div t>> \o QuotientBits((2 * r) % t, t, n - 1)

\* What is left of r/t after its first n bits.
RECURSIVE QuotientRest(_, _, _)
QuotientRest(r, t, n) == IF n = 0 THEN r ELSE QuotientRest((2 * r) % t, t, n - 1)

\* The zero bits r/t starts with after the binary point.
RECURSIVE LeadingZeros(_, _)
LeadingZeros(r, t) == IF 2 * r >= t THEN 0 ELSE 1 + LeadingZeros(2 * r, t)

\* rev * k + carry on bit sequences, least significant bit first.
RECURSIVE TimesLsbFirst(_, _, _)
TimesLsbFirst(rev, k, carry) ==
    IF rev = <<>> THEN BitsLsbFirst(carry)
    ELSE <<(Head(rev) * k + carry) % 2>> \o
         TimesLsbFirst(Tail(rev), k, (Head(rev) * k + carry) \div 2)

\* IEEE 754 binary64 rounding: to 53 significand bits, to nearest, ties to even.
RoundToF64(bits, exp, sticky) ==
    IF Len(bits) <= 53 THEN [bits |-> bits, exp |-> exp]
    ELSE LET kept == SubSeq(bits, 1, 53)
             guard == bits[54]
             rest == sticky \/ \E k \in 55..Len(bits) : bits[k] = 1
             up == guard = 1 /\ (rest \/ kept[53] = 1)
             raised == Reverse(TimesLsbFirst(Reverse(kept), 1, 1))
         IN IF ~up THEN [bits |-> kept, exp |-> exp]
            ELSE IF Len(raised) = 54 THEN [bits |-> SubSeq(raised, 1, 53), exp |-> exp + 1]
            ELSE [bits |-> raised, exp |-> exp]

\* capacity as f64 / total_capacity as f64, for 0 < capacity <= total_capacity.
f64_div(c, t) ==
    IF c = t THEN [bits |-> <<1>>, exp |-> 1]
    ELSE LET z == LeadingZeros(c, t)
             r == c * (2 ^ z)
         IN RoundToF64(QuotientBits(r, t, 54), 0 - z, QuotientRest(r, t, 54) # 0)

\* x * k for a small integer k.
f64_times(x, k) ==
    LET product == Reverse(TimesLsbFirst(Reverse(x.bits), k, 0))
    IN RoundToF64(product, x.exp + (Len(product) - Len(x.bits)), FALSE)

\* x.round() as usize: the nearest integer, halves away from zero.
f64_round(x) ==
    IF x.exp < 0 THEN 0
    ELSE LET bit(k) == IF k <= Len(x.bits) THEN x.bits[k] ELSE 0
         IN ValueOfBits([k \in 1..x.exp |-> bit(k)]) + bit(x.exp + 1)

\* ------------------------------------------------------------- driver
\* Values of the input path: an EPUB that exists, a path that does not
\* exist, an existing file with another extension.
InputFiles == {"book.epub", "missing.epub", "book.txt"}

\* Values of --target-lang.
TargetLanguages == {"ES", "es", "XX"}

\* What GET /languages can answer: an error, or a list of language codes.
LanguageAnswers ==
    { [kind |-> "Err", codes |-> {}], [kind |-> "Ok", codes |-> {"ES", "FR"}] }

\* What the service holds for one key: how the probe against the pro URL
\* ends (a transport error, a success status or another status) and how a
\* usage query for the key ends (an error or a usage report).  The reports
\* leave residuals of 230 000, 170 000, 20 001, 20 000 and 19 999 characters.
UsageAnswers ==
    { [probe |-> "transport_error", kind |-> "Ok", character_count |-> 270000,
       character_limit |-> 500000] } \cup
    { [probe |-> p, kind |-> "Err", character_count |-> 0, character_limit |-> 0] :
        p \in {"success", "non_success"} } \cup
    { [probe |-> "non_success", kind |-> "Ok", character_count |-> c,
       character_limit |-> 500000] : c \in {270000, 330000, 479999, 480000, 480001} } \cup
    { [probe |-> "success", kind |-> "Ok", character_count |-> 270000,
       character_limit |-> 500000] }

\* DeepLConfiguration::new: the base URL of a key by its class.
new(is_pro) == IF is_pro THEN "DEEPL_PRO_API_URL" ELSE "DEEPL_FREE_API_URL"

\* DeepLConfiguration::determine_api_type: send().await? fails on a transport
\* error, otherwise the class is response.status().is_success().
determine_api_type(answer) ==
    IF answer.probe = "transport_error" THEN [kind |-> "Err", is_pro |-> FALSE]
    ELSE [kind |-> "Ok", is_pro |-> answer.probe = "success"]

\* usage.character_limit - usage.character_count
Residual(report) == report.character_limit - report.character_count

\* The body of the task spawned for one key: new_with_determine(..).unwrap()
\* and get_usage(..).unwrap(); the task panics on either Err.
ProbeTask(answer) ==
    IF determine_api_type(answer).kind = "Err" \/ answer.kind = "Err"
    THEN [kind |-> "Panic", api_url |-> "", capacity |-> 0]
    ELSE [kind |-> "Ok", api_url |-> new(determine_api_type(answer).is_pro),
          capacity |-> Residual(answer)]

\* The loop at main.rs:78-86: DEEPL_API_KEY_indice for indice = 1, 2, ...
\* until the first one that is not set (break_at); the keys before it are
\* pushed in order.
ExtraKeys(set, indice) ==
    LET break_at == CHOOSE n \in indice..(indice + Cardinality(set)) :
                        n \notin set /\ \A m \in indice..(n - 1) : m \in set
    IN [k \in 1..(break_at - indice) |-> indice + k - 1]

\* Variant: every numbered key that is set is taken, whatever lies before it.
ApiKeysAcrossGaps(set) ==
    IF 0 \in set
    THEN SelectSeq([n \in 1..(MaxKeys + 1) |-> n - 1], LAMBDA n : n \in set)
    ELSE <<>>

\* main.rs:72-86: the primary key, then the numbered keys.
ApiKeys(set) == IF 0 \in set THEN <<0>> \o ExtraKeys(set, 1) ELSE <<>>

\* What the user can type at the prompt, as read_line returns it.
Answers == {"y\n", "Y\n", " y \n", "n\n", "yes\n", ""}

\* Variant: only the first letter of the trimmed answer is looked at.
first_letter_to_lowercase(line) ==
    CASE line \in {"y\n", "Y\n", " y \n", "yes\n"} -> "y"
      [] line = "n\n" -> "n"
      [] OTHER -> ""

\* input.trim().to_lowercase()
trim_to_lowercase(line) ==
    CASE line \in {"y\n", "Y\n", " y \n"} -> "y"
      [] line = "n\n" -> "n"
      [] line = "yes\n" -> "yes"
      [] OTHER -> ""

\* Variant: the codes are compared without regard to case.
SupportedIgnoringCase(lang, codes) == (IF lang = "es" THEN "ES" ELSE lang) \in codes

\* languages.0.iter().any(|l| l.language == args.target_lang)
Supported(lang, codes) == lang \in codes

\* .filter(|(_, capacity)| *capacity > 20000)
KeepCapacity(capacity) == capacity > safety_margin

\* ((capacity as f64 / total_capacity as f64) * 100.0).round() as usize
proportion(capacity, total) == f64_round(f64_times(f64_div(capacity, total), percent))

Repeat(x, n) == [i \in 1..n |-> x]

\* The loop at main.rs:114-122: for each kept credential, in order,
\* proportion copies; the pushes of the first half of the entries, then
\* those of the second half.
RECURSIVE Balanced(_, _)
Balanced(entries, total) ==
    IF entries = <<>> THEN <<>>
    ELSE IF Len(entries) = 1
    THEN (IF entries[1].capacity > 0
          THEN Repeat(entries[1].configuration, proportion(entries[1].capacity, total))
          ELSE <<>>)
    ELSE Balanced(SubSeq(entries, 1, Len(entries) \div 2), total)
         \o Balanced(SubSeq(entries, Len(entries) \div 2 + 1, Len(entries)), total)

\* The fold at main.rs:108-110: the sum of the kept capacities.
RECURSIVE SumCapacity(_)
SumCapacity(entries) ==
    IF entries = <<>> THEN 0
    ELSE IF Len(entries) = 1 THEN entries[1].capacity
    ELSE SumCapacity(SubSeq(entries, 1, Len(entries) \div 2))
         + SumCapacity(SubSeq(entries, Len(entries) \div 2 + 1, Len(entries)))

\* shuffle(&mut thread_rng()): a permutation of the vector; the model draws
\* it from the identity, the reversal and the rotation by one.
Shuffles(seq) ==
    {seq, Reverse(seq), IF seq = <<>> THEN seq ELSE Append(Tail(seq), Head(seq))}

\* The layers below main are not running.
PipelineIdle ==
    /\ dom = <<>>
    /\ text_nodes = <<>>
    /\ total_nodes = 0
    /\ concurrent_requests = 0
    /\ configuration_length = 0
    /\ texts_enumerated = <<>>
    /\ nodes = <<>>
    /\ rx_translator = <<>>
    /\ rx_writer = <<>>
    /\ tasks = EmptyBag
    /\ semaphore = 0
    /\ translator = "unspawned"
    /\ pc = "idle"
    /\ cur = 0
    /\ completed = 0
    /\ retries = <<>>
    /\ emitted = <<>>
    /\ resolved = <<>>
    /\ delivered = <<>>
    /\ written = <<>>
    /\ attempts_failed = FALSE
    /\ error_replies = <<>>
    /\ empty_replies = <<>>
    /\ credentials_used = <<>>
    /\ failed_sent = <<>>
    /\ error = ""
    /\ xhtml_overwritten = FALSE
    /\ output_epub = FALSE
    /\ walker = <<>>
    /\ zip = <<>>
    /\ source = <<>>
    /\ serialized = <<>>

\* main is entered with an existing input file named *.epub; the command
\* line, the keys found in the environment and the answers of the service
\* are the inputs of the run.
DriverInit ==
    /\ args \in [input_file : InputFiles, test : BOOLEAN, target_lang : TargetLanguages]
    /\ \/ /\ env \in {set \in SUBSET (0..MaxKeys) : Cardinality(set) <= MaxKeys}
          /\ usage \in [1..Len(ApiKeys(env)) -> UsageAnswers]
       \/ /\ env = 0..(ManyKeys - 1)
          /\ usage \in {[k \in 1..ManyKeys |-> answer] : answer \in UsageAnswers}
    /\ api_keys = <<>>
    /\ languages \in LanguageAnswers
    /\ main_pc = "args"
    /\ configurations_with_capacity = <<>>
    /\ total_capacity = 0
    /\ primary_configuration = "test"
    /\ balanced_configurations = <<>>
    /\ exit_code = None
    /\ prompted = FALSE
    /\ input = ""
    /\ translate_epub_called = FALSE
    /\ PipelineIdle

\* What no step of main changes.
driver_frame == <<dom, text_nodes, total_nodes, concurrent_requests, configuration_length,
                  texts_enumerated, nodes, rx_translator, rx_writer, tasks, semaphore,
                  translator, pc, cur, completed, retries, emitted, resolved, delivered,
                  written, attempts_failed, worker_history, failed_sent, files, archive_vars,
                  args, env, usage, languages, surface_vars>>

\* The two tests of the input path, each with exit(1).
VerifyInput ==
    /\ main_pc = "args"
    /\ IF args.input_file = "book.epub"
       THEN main_pc' = "start" /\ UNCHANGED exit_code
       ELSE main_pc' = "exit_input" /\ exit_code' = Some(1)
    /\ UNCHANGED <<driver_frame, api_keys, configurations_with_capacity, total_capacity,
                   primary_configuration, balanced_configurations, prompted, input,
                   translate_epub_called>>

\* --test: the dispatch vector is the mock credential.
UseTestConfiguration ==
    /\ main_pc = "start"
    /\ args.test
    /\ balanced_configurations' = <<"test">>
    /\ main_pc' = "mock"
    /\ UNCHANGED <<driver_frame, api_keys, configurations_with_capacity, total_capacity,
                   primary_configuration, exit_code, prompted, input, translate_epub_called>>

\* Neither --api-key nor DEEPL_API_KEY: exit(1).
NoApiKey ==
    /\ main_pc = "start"
    /\ ~args.test
    /\ 0 \notin env
    /\ main_pc' = "exit_no_key"
    /\ exit_code' = Some(1)
    /\ UNCHANGED <<driver_frame, api_keys, configurations_with_capacity, total_capacity,
                   primary_configuration, balanced_configurations, prompted, input,
                   translate_epub_called>>

\* The probes of all keys are joined: a task that panicked on an unwrap is
\* dropped by result.ok(), the others pass the capacity filter or not.
ProbeKeys ==
    /\ main_pc = "start"
    /\ ~args.test
    /\ 0 \in env
    /\ api_keys' = ApiKeys(env)
    /\ LET kept == SelectSeq([k \in 1..Len(ApiKeys(env)) |-> k],
                             LAMBDA k : /\ ProbeTask(usage[k]).kind = "Ok"
                                        /\ KeepCapacity(ProbeTask(usage[k]).capacity))
       IN configurations_with_capacity' =
              [j \in 1..Len(kept) |-> [configuration |-> kept[j],
                                       api_url |-> ProbeTask(usage[kept[j]]).api_url,
                                       capacity |-> ProbeTask(usage[kept[j]]).capacity]]
    /\ main_pc' = "probed"
    /\ UNCHANGED <<driver_frame, total_capacity, primary_configuration,
                   balanced_configurations, exit_code, prompted, input, translate_epub_called>>

\* The capacities are summed, the primary credential is taken from index 0
\* (a panic when nothing was kept), the weighted vector is built and shuffled.
BalanceConfigurations ==
    /\ main_pc = "probed"
    /\ total_capacity' = SumCapacity(configurations_with_capacity)
    /\ IF configurations_with_capacity = <<>>
       THEN /\ main_pc' = "panic_no_configuration"
            /\ exit_code' = Some(101)
            /\ UNCHANGED <<primary_configuration, balanced_configurations>>
       ELSE /\ primary_configuration' = configurations_with_capacity[1].configuration
            /\ balanced_configurations' \in
                  Shuffles(Balanced(configurations_with_capacity,
                                    SumCapacity(configurations_with_capacity)))
            /\ main_pc' = "languages"
            /\ UNCHANGED exit_code
    /\ UNCHANGED <<driver_frame, api_keys, configurations_with_capacity, prompted, input,
                   translate_epub_called>>

\* Test mode: the mock server is started and asked for its usage.
StartMockServer ==
    /\ main_pc = "mock"
    /\ \E result \in {"Ok", "Err"} :
          IF result = "Ok"
          THEN main_pc' = "languages" /\ UNCHANGED exit_code
          ELSE main_pc' = "exit_mock" /\ exit_code' = Some(1)
    /\ UNCHANGED <<driver_frame, api_keys, configurations_with_capacity, total_capacity,
                   primary_configuration, balanced_configurations, prompted, input,
                   translate_epub_called>>

\* get_languages(...)? and the test of the target language.
CheckLanguages ==
    /\ main_pc = "languages"
    /\ IF languages.kind = "Err"
       THEN main_pc' = "exit_languages_error" /\ exit_code' = Some(1)
       ELSE IF ~Supported(args.target_lang, languages.codes)
       THEN main_pc' = "exit_unsupported_language" /\ exit_code' = Some(1)
       ELSE main_pc' = "confirm" /\ UNCHANGED exit_code
    /\ UNCHANGED <<driver_frame, api_keys, configurations_with_capacity, total_capacity,
                   primary_configuration, balanced_configurations, prompted, input,
                   translate_epub_called>>

\* count_epub_char(...)?, get_usage(...)?, the prompt and the answer.
ConfirmTranslation ==
    /\ main_pc = "confirm"
    /\ \E result \in {"Ok", "Err"} : \E line \in Answers :
          IF result = "Err"
          THEN /\ main_pc' = "exit_preflight_error"
               /\ exit_code' = Some(1)
               /\ UNCHANGED <<prompted, input>>
          ELSE /\ prompted' = TRUE
               /\ input' = line
               /\ IF trim_to_lowercase(line) # "y"
                  THEN main_pc' = "exit_cancelled" /\ exit_code' = Some(0)
                  ELSE main_pc' = "translate" /\ UNCHANGED exit_code
    /\ UNCHANGED <<driver_frame, api_keys, configurations_with_capacity, total_capacity,
                   primary_configuration, balanced_configurations, translate_epub_called>>

\* translate_epub(...).await and the match on its result; a panic inside it
\* unwinds main.
CallTranslateEpub ==
    /\ main_pc = "translate"
    /\ translate_epub_called' = TRUE
    /\ \E result \in {"Ok", "Err", "Panic"} :
          CASE result = "Ok" -> main_pc' = "finish" /\ UNCHANGED exit_code
            [] result = "Err" -> main_pc' = "exit_translation_error" /\ exit_code' = Some(1)
            [] OTHER -> main_pc' = "panic_translation" /\ exit_code' = Some(101)
    /\ UNCHANGED <<driver_frame, api_keys, configurations_with_capacity, total_capacity,
                   primary_configuration, balanced_configurations, prompted, input>>

\* The mock server is shut down in test mode, and main returns Ok.
Finish ==
    /\ main_pc = "finish"
    /\ \E shutdown \in {"Ok", "Err"} :
          IF args.test /\ shutdown = "Err"
          THEN main_pc' = "exit_shutdown_error" /\ exit_code' = Some(1)
          ELSE main_pc' = "done" /\ exit_code' = Some(0)
    /\ UNCHANGED <<driver_frame, api_keys, configurations_with_capacity, total_capacity,
                   primary_configuration, balanced_configurations, prompted, input,
                   translate_epub_called>>

DriverNext ==
    \/ VerifyInput
    \/ UseTestConfiguration
    \/ NoApiKey
    \/ ProbeKeys
    \/ BalanceConfigurations
    \/ StartMockServer
    \/ CheckLanguages
    \/ ConfirmTranslation
    \/ CallTranslateEpub
    \/ Finish

DriverSpec == DriverInit /\ [][DriverNext]_vars

\* ------------------------------------------------------------- claims
\* Number of translation_task instances that hold a permit.
PermitsHeld ==
    LET holders == {t \in BagToSet(tasks) : t.at = "translate"}
    IN BagCardinality([t \in holders |-> CopiesIn(t, tasks)])

\* translate_folder has left the writer loop through the loop's exit or end.
WriterExited == pc \in {"serialize", "serialize_failed", "zip", "zip_failed", "done"}

\* translate_folder is in the fan-out or in the writer loop.
InWriterLoop == pc \in {"send", "recv", "resend"}

\* C1: for any number of text nodes and any mix of successful and failed
\* attempts the writer loop ends, and it ends with completed = total_nodes:
\* the loop is never left by a panic, never left with another count, and
\* translate_folder is never stuck before the exit with no step left to take.
C1_WriterTerminates ==
    /\ pc # "panicked"
    /\ WriterExited => completed = total_nodes
    /\ InWriterLoop => ENABLED Next

\* C2: mutation locality: the contents of every node are its initial text or
\* one of the translated strings the writer received in a result carrying
\* that node's id.
C2_MutationLocality ==
    \A i \in Ids : nodes[i] = texts_enumerated[i] \/ nodes[i] \in delivered[i]

\* C2 witness: two nodes with different translations have both been overwritten.
C2_Witness ==
    \E i, j \in Ids :
        /\ i # j
        /\ nodes[i] \in delivered[i] /\ nodes[i] # texts_enumerated[i]
        /\ nodes[j] \in delivered[j] /\ nodes[j] # texts_enumerated[j]
        /\ nodes[i] # nodes[j]

\* C3: retry bound: at most max_retries + 1 requests are emitted for an id,
\* the initial one included.
C3_RetryBound == \A i \in Ids : emitted[i] <= max_retries + 1

\* C3 witness: an id has been sent max_retries + 1 times.
C3_Witness == \E i \in Ids : emitted[i] = max_retries + 1

\* C4: concurrency bound: never more than concurrent_requests tasks hold a permit.
C4_ConcurrencyBound == PermitsHeld <= concurrent_requests

\* C4 witness: every permit is taken while another spawned task waits for one.
C4_Witness ==
    /\ concurrent_requests > 1
    /\ PermitsHeld = concurrent_requests
    /\ \E t \in BagToSet(tasks) : t.at = "acquire"

\* C5: retry policy: every id has a retry counter that starts at 0 and counts
\* the re-sends of that id, and an id is given up only after max_retries + 1
\* requests, with its node text still the original; the writer never fails
\* on the counter.
C5_RetryPolicy ==
    /\ pc # "panicked"
    /\ \A i \in Ids :
          /\ (pc = "recv" /\ emitted[i] > 0) =>
                (i \in DOMAIN retries /\ retries[i] + 1 = emitted[i])
          /\ resolved[i] = "exhausted" =>
                (emitted[i] = max_retries + 1 /\ nodes[i] = texts_enumerated[i])

\* C6: every node is overwritten by the writer at most once.
C6_WrittenAtMostOnce == \A i \in Ids : written[i] <= 1

\* C6 witness: a node was overwritten after an earlier attempt for it failed,
\* and the writer went on receiving.
C6_Witness ==
    \E i \in Ids : written[i] = 1 /\ emitted[i] > 1 /\ pc = "recv" /\ rx_writer # <<>>

\* C7: the writer loop is left only with completed = total_nodes; it is
\* never left because the results channel closed.
C7_ExitOnlyWhenComplete == WriterExited => completed = total_nodes

\* C8: the writer never waits for a result when completed = total_nodes
\* already holds.
C8_NoWaitWhenComplete == ~(pc = "recv" /\ completed = total_nodes)

\* The parent of a node other than the document node.
ParentOf(i) == CHOOSE p \in DOMAIN dom : \E k \in DOMAIN dom[p].children : dom[p].children[k] = i

RECURSIVE Ancestors(_)
Ancestors(i) == IF i = 0 THEN {} ELSE {ParentOf(i)} \cup Ancestors(ParentOf(i))

InsideStyle(i) ==
    \E a \in Ancestors(i) : dom[a].data = "Element" /\ dom[a].name = "style"

TextHandles == {i \in DOMAIN dom : dom[i].data = "Text"}

\* The position of a node in the document: the child indices on the way from
\* the document node down to it.
RECURSIVE Path(_)
Path(i) ==
    IF i = 0 THEN <<>>
    ELSE Append(Path(ParentOf(i)),
                CHOOSE k \in DOMAIN dom[ParentOf(i)].children : dom[ParentOf(i)].children[k] = i)

\* Document order of two text nodes: where their paths part, a goes first.
Precedes(a, b) ==
    \E k \in 1..Len(Path(a)) :
        /\ k <= Len(Path(b))
        /\ \A m \in 1..(k - 1) : Path(a)[m] = Path(b)[m]
        /\ Path(a)[k] < Path(b)[k]

\* C9: style exclusion: the collected vector holds, in document order, exactly
\* the text nodes without a style ancestor, and the text of a node inside a
\* style element is never changed.
C9_StyleExclusion ==
    pc = "enumerated" =>
        /\ {text_nodes[k] : k \in DOMAIN text_nodes} = {i \in TextHandles : ~InsideStyle(i)}
        /\ \A k, m \in DOMAIN text_nodes : k < m => Precedes(text_nodes[k], text_nodes[m])
        /\ \A i \in TextHandles : InsideStyle(i) => dom[i].contents = ParsedText(i)

\* C9 witness: a document with text inside a style element and two collected
\* text nodes, both overwritten.
C9_Witness ==
    /\ pc = "enumerated"
    /\ \E i \in TextHandles : InsideStyle(i)
    /\ Len(text_nodes) = 2
    /\ \A k \in DOMAIN text_nodes : dom[text_nodes[k]].contents # ParsedText(text_nodes[k])

PendingFailed(i) ==
    LET senders == {t \in BagToSet(tasks) : t.at = "send" /\ t.id = i /\ t.result = None}
    IN BagCardinality([t \in senders |-> CopiesIn(t, tasks)])

\* C11: an attempt answered with an empty translations list is reported like
\* any failed attempt: while the writer listens, every attempt for an id that
\* ended on an error or on an empty list has a result holding None for that
\* id, sent or about to be sent.
C11_EmptyListIsFailed ==
    FolderAlive =>
        \A i \in Ids :
            failed_sent[i] + PendingFailed(i) >= error_replies[i] + empty_replies[i]

\* C12: a translate() call that returns Err (transport error, non-2xx status,
\* malformed JSON) yields one result holding None for the task's own id, and
\* the failure stays local: the dispatcher keeps running whenever it has a
\* credential to index, and the writer is never stopped by a failed result.
C12_FailureStaysLocal ==
    /\ pc # "panicked"
    /\ configuration_length > 0 => translator # "panicked"
    /\ FolderAlive =>
          \A i \in Ids :
              /\ error_replies[i] <= failed_sent[i] + PendingFailed(i)
              /\ failed_sent[i] + PendingFailed(i) <= error_replies[i] + empty_replies[i]

\* C13: serialization is the last step of translate_folder and zip the last
\* step of translate_epub: an XHTML file is written back only after the
\* writer loop was left, the output EPUB exists only after unzip, parsing,
\* translation and serialization all went through, and a run that failed or
\* panicked in one of them has created no output EPUB.
C13_SerializationLast ==
    /\ xhtml_overwritten => WriterExited
    /\ output_epub => (pc \in {"done", "zip_failed"} /\ error \in {"", "zip"})
    /\ pc \in {"unzip_failed", "parse_failed", "parse_panicked", "panicked", "serialize_failed"}
          => ~output_epub

\* C13 witness: a run over several nodes, one of them given up after failed
\* attempts, wrote the XHTML files back and then created the output EPUB.
C13_Witness ==
    /\ pc = "done" /\ output_epub /\ xhtml_overwritten
    /\ total_nodes > 1
    /\ \E i \in Ids : resolved[i] = "exhausted"

\* C17: every attempt for id i, first or retry, runs with the credential at
\* index i mod len of the dispatch vector, whatever else is in flight.
C17_CredentialByIdModLen ==
    configuration_length > 0 =>
        /\ \A t \in BagToSet(tasks) : t.config_index = t.id % configuration_length
        /\ \A i \in Ids : credentials_used[i] \subseteq {i % configuration_length}

\* C17 witness: with two credentials, id 1 was retried on credential 1 while
\* id 0, on credential 0, has been attempted as well.
C17_Witness ==
    /\ configuration_length = 2
    /\ total_nodes >= 2
    /\ emitted[1] > 1 /\ error_replies[1] > 1 /\ credentials_used[1] = {1}
    /\ credentials_used[0] = {0}

\* C18: in the finished archive the mimetype entry, when the folder has one,
\* is the first entry, Stored, with permissions 0644, wherever the walk met
\* the file; every other file entry is Deflated with permissions 0755.
C18_MimetypeFirstStored ==
    pc = "zip_finished" =>
        \A k \in DOMAIN zip :
            IF zip[k].name = "mimetype"
            THEN k = 1 /\ zip[k].compression_method = "Stored" /\ zip[k].unix_permissions = "644"
            ELSE zip[k].kind = "file" =>
                    (zip[k].compression_method = "Deflated" /\ zip[k].unix_permissions = "755")

\* main has gone past the test of the target language.
PastLanguageCheck ==
    main_pc \in {"confirm", "translate", "finish", "done", "exit_preflight_error",
                 "exit_cancelled", "exit_translation_error", "panic_translation",
                 "exit_shutdown_error"}

\* C14: when GET /languages answered and target_lang is not, letter for
\* letter, one of its codes, main never gets past the test: it ends there
\* with exit code 1, the prompt is never printed and translate_epub is never
\* called.
C14_UnsupportedLanguageRefused ==
    (languages.kind = "Ok" /\ args.target_lang \notin languages.codes) =>
        /\ ~PastLanguageCheck
        /\ ~prompted
        /\ ~translate_epub_called
        /\ main_pc = "exit_unsupported_language" => exit_code = Some(1)

\* C14 witness: with real keys, a target language that differs from a
\* supported code only in case was refused at the test.
C14_Witness ==
    /\ main_pc = "exit_unsupported_language"
    /\ ~args.test
    /\ args.target_lang = "es" /\ "ES" \in languages.codes
    /\ exit_code = Some(1) /\ ~prompted /\ ~translate_epub_called

\* Number of entries of a vector equal to x.
Count(seq, x) == Cardinality({i \in DOMAIN seq : seq[i] = x})

\* The keys that passed the probes and the filter.
KeptKeys == {configurations_with_capacity[j].configuration : j \in DOMAIN configurations_with_capacity}

\* C15: once the probes are joined, a key with a usage report is kept
\* exactly when its residual is at least 20 000, a residual of exactly
\* 20 000 included, and a key with a smaller residual is never in the
\* dispatch vector.
C15_DropBelowMargin ==
    (~args.test /\ main_pc \notin {"args", "exit_input", "start", "exit_no_key"}) =>
        \A k \in DOMAIN usage :
            (usage[k].kind = "Ok" /\ usage[k].probe # "transport_error") =>
                /\ k \in KeptKeys <=> Residual(usage[k]) >= safety_margin
                /\ Residual(usage[k]) < safety_margin => Count(balanced_configurations, k) = 0

\* round(n / d) for positive integers, halves up.
RoundedQuotient(n, d) == (2 * n + d) \div (2 * d)

\* C16: once the dispatch vector is built, it holds for every kept
\* credential exactly round(100 * residual / total) entries, total being the
\* sum of the kept residuals, whatever the shuffle did.
C16_ProportionalCopies ==
    (~args.test /\ main_pc \notin {"args", "exit_input", "start", "exit_no_key", "probed",
                                  "panic_no_configuration"}) =>
        \A j \in DOMAIN configurations_with_capacity :
            Count(balanced_configurations, configurations_with_capacity[j].configuration) =
                RoundedQuotient(percent * configurations_with_capacity[j].capacity,
                                SumCapacity(configurations_with_capacity))

RECURSIVE Events(_)
\* The tags and text runs with every self-closing tag written out as a
\* start tag and an end tag: the element and text events of a document.
Events(tokens) ==
    IF tokens = <<>> THEN <<>>
    ELSE LET token == Head(tokens)
         IN IF token.type = "start" /\ token.self_closing
            THEN <<StartTag(token.name, token.attrs, FALSE), EndTag(token.name)>>
                     \o Events(Tail(tokens))
            ELSE <<token>> \o Events(Tail(tokens))

\* The tag at place k of the source comes out as `tag`, at the same place
\* among the events of the document.
ComesOutAs(k, tag) ==
    \E j \in DOMAIN serialized :
        /\ serialized[j] = tag
        /\ Len(Events(SubSeq(serialized, 1, j - 1))) = Len(Events(SubSeq(source, 1, k - 1)))

\* No text node of the parsed document has been overwritten.
Untouched == \A id \in DOMAIN written : written[id] = 0

\* C19: parse followed by serialize, with the DOM untouched, keeps every
\* self-closing span of the source as a self-closing span with the same
\* attributes, writes every void element in the closed form with its
\* attributes, and gives the text runs and the elements in document order.
C19_RoundTripKeepsTags ==
    (pc = "serialized" /\ Untouched) =>
        /\ \A k \in DOMAIN source :
              (source[k].type = "start" /\ source[k].name = "span" /\ source[k].self_closing)
                  => ComesOutAs(k, source[k])
        /\ \A k \in DOMAIN source :
              (source[k].type = "start" /\ source[k].name \in VoidElements)
                  => ComesOutAs(k, StartTag(source[k].name, source[k].attrs, TRUE))
        /\ \A j \in DOMAIN serialized :
              (serialized[j].type = "start" /\ serialized[j].name \in VoidElements)
                  => serialized[j].self_closing
        /\ Events(serialized) = Events(source)

\* The serialization of the source without any overwrite.
Baseline == serialize_document_to_string(get_document_node(source))

\* The text node with this snapshot has been overwritten.
Overwritten(text) == \E id \in Ids : texts_enumerated[id] = text /\ written[id] = 1

\* C20: after overwrites through the handles of get_text_nodes the
\* serialized document has the tags of the serialization without overwrite,
\* with their attributes and in their order; the text of an overwritten node
\* is the new text, at the place of the old one, and the text of every other
\* node is unchanged.
C20_OverwriteChangesOnlyText ==
    pc = "serialized" =>
        /\ Len(serialized) = Len(Baseline)
        /\ \A k \in DOMAIN serialized :
              IF Baseline[k].type = "text"
              THEN serialized[k] =
                       TextRun(IF Overwritten(Baseline[k].text)
                               THEN r_translate(Baseline[k].text, target_lang)
                               ELSE Baseline[k].text)
              ELSE serialized[k] = Baseline[k]

\* A document with text inside and after an element was serialized after
\* the overwrite of its second text node only.
C20_Witness ==
    /\ pc = "serialized"
    /\ total_nodes = 2
    /\ written[0] = 0
    /\ written[1] = 1
    /\ \E k \in DOMAIN serialized :
          /\ serialized[k] = TextRun(r_translate(texts_enumerated[1], target_lang))
          /\ \E j \in 1..(k - 1) : serialized[j] = TextRun(texts_enumerated[0])
          /\ \E j \in 1..(k - 1) : serialized[j].type = "start"

\* The places where main ends on a failure before translate_epub is called.
PreflightFailures ==
    {"exit_input", "exit_no_key", "panic_no_configuration", "exit_mock",
     "exit_languages_error", "exit_unsupported_language", "exit_preflight_error"}

\* The places where main ends on a failure of translate_epub or after it.
TranslationFailures == {"exit_translation_error", "panic_translation", "exit_shutdown_error"}

\* C21: the process ends with exit code 1 on every pre-flight failure and on
\* every translation failure, with exit code 0 on success, and with no other
\* code on any path.
C21_ExitCodes ==
    /\ exit_code \in {None, Some(0), Some(1)}
    /\ main_pc \in PreflightFailures \cup TranslationFailures => exit_code = Some(1)
    /\ main_pc = "done" => exit_code = Some(0)

\* The numbers of the keys that were probed.
Probed == {api_keys[k] : k \in DOMAIN api_keys}

\* The numbers of the keys the dispatch vector holds.
Dispatched == {api_keys[balanced_configurations[j]] : j \in DOMAIN balanced_configurations}

\* A numbered key that is set lies after a number that is not set.
AfterGap(n) == n \in env /\ n >= 1 /\ \E m \in 1..(n - 1) : m \notin env

\* C22: without --test, once the keys are joined, the keys probed are the
\* primary key followed by DEEPL_API_KEY_1, _2, ... in increasing number up
\* to the first number that is not set; a key after a gap is neither probed
\* nor in the dispatch vector.
C22_KeysUntilFirstGap ==
    (~args.test /\ main_pc \notin {"args", "exit_input", "start", "exit_no_key"}) =>
        /\ api_keys # <<>>
        /\ \A k \in DOMAIN api_keys : api_keys[k] = k - 1
        /\ Probed \subseteq env
        /\ Len(api_keys) \notin env
        /\ \A n \in env : AfterGap(n) => (n \notin Probed /\ n \notin Dispatched)

\* C22 witness: DEEPL_API_KEY_2 is set and DEEPL_API_KEY_1 is not; only the
\* primary key was probed and translate_epub was called with it.
C22_Witness ==
    /\ ~args.test
    /\ env = {0, 2}
    /\ api_keys = <<0>>
    /\ translate_epub_called
    /\ Dispatched = {0}

\* C30: once the keys are joined, a key whose probe returned a success
\* status has the pro base URL, and a key whose probe ended in any other
\* way, a transport error included, has the free base URL and is still a
\* candidate: it is kept when its usage report leaves more than the margin.
C30_ProbeClassifiesKey ==
    (~args.test /\ main_pc \notin {"args", "exit_input", "start", "exit_no_key"}) =>
        \A k \in DOMAIN usage :
            (usage[k].kind = "Ok" /\ Residual(usage[k]) > safety_margin) =>
                \E j \in DOMAIN configurations_with_capacity :
                    /\ configurations_with_capacity[j].configuration = k
                    /\ configurations_with_capacity[j].api_url = new(usage[k].probe = "success")

\* The step is one of the dispatcher or of a worker: only they spawn, move
\* and end tasks, end the dispatcher and take and give back permits.
DispatcherOrWorkerStep ==
    \/ tasks' # tasks
    \/ semaphore' # semaphore
    \/ (translator = "running" /\ translator' # translator)

\* C23: every step of the dispatcher and of a worker leaves the contents of
\* every node, the retry counters and completed unchanged, and a worker
\* carries the id of its Job and the snapshot of that id's text, whatever
\* the node holds by then.
C23_OnlyWriterMutates ==
    /\ [](\A t \in BagToSet(tasks) :
             /\ t.id \in Ids
             /\ t.text = texts_enumerated[t.id]
             /\ t.result \in {None, Some(r_translate(texts_enumerated[t.id], target_lang))})
    /\ [][DispatcherOrWorkerStep => UNCHANGED <<nodes, retries, completed>>]_vars

\* C23 witness: a node has been overwritten by the writer while a worker of
\* another id holds its translation, that node still untouched.
C23_Witness ==
    \E i, j \in Ids :
        /\ i # j
        /\ written[i] = 1 /\ nodes[i] # texts_enumerated[i]
        /\ nodes[j] = texts_enumerated[j]
        /\ \E t \in BagToSet(tasks) : t.id = j /\ t.at = "send" /\ t.result # None

\* Number of translation_task instances between acquire() and the end of
\* their send on results.
AcquiredNotSent ==
    LET holders == {t \in BagToSet(tasks) : t.at \in {"translate", "send"}}
    IN BagCardinality([t \in holders |-> CopiesIn(t, tasks)])

\* C24: a worker holds its permit from the acquire until its Outcome is on
\* results: the permits out are those of the workers that have acquired and
\* not yet finished their send, also while a worker waits for room on
\* results.
C24_PermitHeldUntilSent == semaphore + AcquiredNotSent = concurrent_requests

\* A request or a task or a result of id i is somewhere in the pipeline.
InFlight(i) ==
    \/ \E k \in DOMAIN rx_translator : rx_translator[k].id = i
    \/ \E t \in BagToSet(tasks) : t.id = i
    \/ \E k \in DOMAIN rx_writer : rx_writer[k].id = i

\* C25: an id whose send on requests failed is counted completed by that
\* step, once; from then on no request is emitted for it, its count does
\* not change again, and its node holds the original text.
C25_SendFailureCountedOnce ==
    /\ [](\A i \in Ids :
             resolved[i] = "send_failed" =>
                 /\ nodes[i] = texts_enumerated[i]
                 /\ written[i] = 0
                 /\ ~InFlight(i))
    /\ [](completed = Cardinality({i \in Ids : resolved[i] # "no"}))
    /\ [][\A i \in Ids :
             /\ (resolved[i] # "send_failed" /\ resolved'[i] = "send_failed")
                    => completed' = completed + 1
             /\ resolved[i] = "send_failed"
                    => (resolved'[i] = "send_failed" /\ emitted'[i] = emitted[i])]_vars

\* C25 witness: the dispatcher is gone, the send of the second id failed in
\* the fan-out, and translate_folder has left the writer loop.
C25_Witness ==
    /\ total_nodes >= 2
    /\ translator = "panicked"
    /\ resolved[1] = "send_failed"
    /\ emitted[1] = 0
    /\ completed >= 1
    /\ pc = "serialize"

\* text.trim().is_empty()
Blank(text) == text \in {"", " "}

\* C27: no request is ever emitted for a node whose snapshot is empty or
\* whitespace only, its contents stay what they were, and once the fan-out
\* is over it has been counted completed.
C27_BlankTextSkipped ==
    \A i \in Ids :
        Blank(texts_enumerated[i]) =>
            /\ emitted[i] = 0
            /\ nodes[i] = texts_enumerated[i]
            /\ pc \in {"recv", "resend", "serialize", "zip", "done"} => resolved[i] # "no"

\* The step takes a request off the requests channel: a dispatcher step.
DispatcherTakes == translator = "running" /\ Len(rx_translator') < Len(rx_translator)

\* C28: the dispatcher waits for nothing but a request: whenever one is
\* buffered it can take its step, whatever results holds, whatever the
\* writer and the workers do, and that step neither sends on results nor
\* takes a permit.
C28_DispatcherNeverAwaitsWriter ==
    /\ []((translator = "running" /\ rx_translator # <<>>) => ENABLED TranslatorRecv)
    /\ [][DispatcherTakes => UNCHANGED <<rx_writer, semaphore, pc, completed>>]_vars

\* C28 witness: results is full, the writer is still in its fan-out and has
\* received nothing, and the dispatcher can take the request that waits.
C28_Witness ==
    /\ Len(rx_writer) = writer_queue_size
    /\ pc = "send"
    /\ completed = 0
    /\ translator = "running"
    /\ rx_translator # <<>>
    /\ ENABLED TranslatorRecv

\* C29: the retry vector has the two elements 0 and total_nodes whatever the
\* number of nodes, and the writer's step on a result holding None for an
\* id of 2 or more ends translate_folder in a panic, with no request sent
\* and nothing counted; the writer ends in a panic in no other way.
C29_RetryVectorOfTwo ==
    /\ [](pc \in {"recv", "resend"} => DOMAIN retries = {0, 1})
    /\ [][(pc = "recv" /\ Len(rx_writer') < Len(rx_writer)
             /\ Head(rx_writer).translated_text = None /\ Head(rx_writer).id >= 2)
          => (pc' = "panicked" /\ UNCHANGED <<emitted, completed, retries, nodes>>)]_vars
    /\ [][(pc # "panicked" /\ pc' = "panicked")
          => (pc = "recv" /\ rx_writer # <<>> /\ Head(rx_writer).translated_text = None
                /\ Head(rx_writer).id >= 2)]_vars

\* C29 witness: with three nodes, the writer panicked on the failure of the
\* third while the first had been written.
C29_Witness ==
    /\ pc = "panicked"
    /\ total_nodes = 3
    /\ written[0] = 1
    /\ error_replies[2] = 1
    /\ emitted[2] = 1
    /\ resolved[2] = "no"

\* Answers that read "y" once trimmed and lowercased.
Agreed == {"y\n", "Y\n", " y \n"}

C32_JobCarriesSnapshot ==
    /\ \A k \in 1..Len(rx_translator) :
          /\ rx_translator[k].id \in Ids
          /\ rx_translator[k].text = texts_enumerated[rx_translator[k].id]
    /\ \A t \in BagToSet(tasks) : t.id \in Ids /\ t.text = texts_enumerated[t.id]

C32_Witness ==
    \E i, j \in Ids :
        /\ written[i] = 1 /\ nodes[i] # texts_enumerated[i]
        /\ emitted[j] >= 2
        /\ \E k \in 1..Len(rx_translator) :
              rx_translator[k] = TranslationRequest(j, texts_enumerated[j])

\* C33: while translate_folder holds its sender of the requests channel the
\* dispatcher, once spawned, is running; it ends only after translate_folder
\* let go of the sender and the buffered requests were taken.
C33_DispatcherRunsWhileSenderHeld ==
    /\ (FolderAlive /\ translator # "unspawned") => translator = "running"
    /\ translator = "ended" => (~FolderAlive /\ rx_translator = <<>>)

\* Number of translation_task instances that work on id i.
Workers(i) ==
    BagCardinality([t \in {u \in BagToSet(tasks) : u.id = i} |-> CopiesIn(t, tasks)])

\* Requests, workers and results that exist for id i.
Units(i) ==
    Cardinality({k \in 1..Len(rx_translator) : rx_translator[k].id = i})
    + Workers(i)
    + Cardinality({k \in 1..Len(rx_writer) : rx_writer[k].id = i})

\* C34: for every id at most one request, worker or result exists at a
\* time, and none once the id has been counted in completed.
C34_OneUnitPerId ==
    \A i \in Ids :
        /\ Units(i) <= 1
        /\ resolved[i] # "no" => Units(i) = 0

C34_Witness ==
    \E i, j \in Ids :
        /\ resolved[i] = "written" /\ Units(i) = 0
        /\ emitted[j] >= 2 /\ Units(j) = 1 /\ Workers(j) = 1

\* The ids that have been counted in completed.
ResolvedIds == {i \in Ids : resolved[i] # "no"}

\* C35: completed never exceeds total_nodes and never decreases; it grows by
\* one at a time, each time for one id that was not resolved before, so it is
\* the number of distinct ids written, exhausted or failed to be sent.
C35_CompletedCountsResolvedIds ==
    /\ [](completed <= total_nodes /\ completed = Cardinality(ResolvedIds))
    /\ [][/\ completed' >= completed
          /\ completed' # completed =>
                /\ completed' = completed + 1
                /\ \E i \in Ids :
                      /\ resolved[i] = "no"
                      /\ resolved'[i] \in {"written", "exhausted", "send_failed"}
                      /\ \A j \in Ids \ {i} : resolved'[j] = resolved[j]]_vars

C35_Witness ==
    /\ completed = 2
    /\ \E i, j \in Ids : resolved[i] = "written" /\ resolved[j] = "exhausted"

\* C36: when the writer has left its loop with completed = total_nodes, both
\* channels are empty, no worker exists (none holds a permit, none waits for
\* one, none has a result to send), every permit is back and every id has
\* been resolved.
C36_QuiescentAtExit ==
    (WriterExited /\ completed = total_nodes) =>
        /\ rx_translator = <<>>
        /\ rx_writer = <<>>
        /\ tasks = EmptyBag
        /\ semaphore = concurrent_requests
        /\ \A i \in Ids : resolved[i] # "no" /\ Units(i) = 0

C36_Witness ==
    /\ pc = "serialize"
    /\ completed = total_nodes
    /\ total_nodes = 2
    /\ attempts_failed
    /\ \E i \in Ids : emitted[i] >= 2 /\ resolved[i] = "written"

\* C37: the available permits and the permits held by workers add up to
\* concurrent_requests; the count of available permits stays within
\* 0..concurrent_requests, so no permit is released twice or kept after a
\* failed translation; when no worker is left every permit is available.
C37_PermitsConserved ==
    /\ semaphore \in 0..concurrent_requests
    /\ semaphore + PermitsHeld = concurrent_requests
    /\ tasks = EmptyBag => semaphore = concurrent_requests

C37_Witness ==
    /\ concurrent_requests = 2
    /\ tasks = EmptyBag
    /\ semaphore = 2
    /\ \E i, j \in Ids : error_replies[i] >= 1 /\ resolved[j] = "written"

\* Results with id i that the writer has taken from the results channel:
\* the ones it wrote, and the None results sent that are no longer waiting.
Received(i) ==
    written[i] + failed_sent[i]
    - Cardinality({k \in 1..Len(rx_writer) :
                     rx_writer[k].id = i /\ rx_writer[k].translated_text = None})

\* C38: with at least one permit and one credential no request accepted by
\* the requests channel is lost: each one is still a request, a worker or a
\* waiting result, or the writer has received its result.
C38_NoJobLost ==
    (concurrent_requests >= 1 /\ configuration_length >= 1) =>
        \A i \in Ids : emitted[i] = Units(i) + Received(i)

\* C39: the bounded channels cannot block the pipeline. During the fan-out
\* nothing has been received yet and the ids were sent once each in
\* increasing order; a send of the fan-out or of a retry that finds the
\* requests channel full is released by the dispatcher, which can always
\* take the oldest request; a worker that finds the results channel full is
\* released by the writer once it is in its loop.
C39_ChannelsCannotDeadlock ==
    /\ pc = "send" =>
          \A i \in Ids :
              /\ written[i] = 0 /\ Received(i) = 0
              /\ i >= cur => emitted[i] = 0
              /\ i < cur => \/ emitted[i] = 1 /\ resolved[i] = "no"
                            \/ emitted[i] = 0 /\ resolved[i] = "send_failed"
    /\ (pc = "send" /\ cur < total_nodes) => (ENABLED SendInitial \/ ENABLED TranslatorRecv)
    /\ pc = "resend" => (ENABLED WriterResend \/ ENABLED TranslatorRecv)
    /\ (pc = "recv" /\ \E t \in BagToSet(tasks) : t.at = "send") =>
          (ENABLED TaskSend \/ ENABLED WriterRecvTranslated \/ ENABLED WriterRecvFailed)

C39_Witness ==
    /\ pc = "send"
    /\ total_nodes > writer_queue_size
    /\ cur < total_nodes
    /\ Len(rx_translator) = writer_queue_size
    /\ ~ENABLED SendInitial
    /\ Len(rx_writer) = 0

\* C40: whenever translate_epub is called the dispatch vector is not empty:
\* it is the mock credential in test mode, and otherwise it holds only, and
\* at least one of, the credentials that passed the residual filter.
C40_DispatchVectorNotEmpty ==
    translate_epub_called =>
        /\ balanced_configurations # <<>>
        /\ args.test => balanced_configurations = <<"test">>
        /\ ~args.test =>
              {balanced_configurations[j] : j \in DOMAIN balanced_configurations}
                  \subseteq KeptKeys

====
